---------------------------- MODULE Spec2Model ----------------------------
(***************************************************************************)
(* Model of the skin-condition analysis service:                           *)
(*   services/skin_condition.py  detect_skin_in_image, SkinConditionService *)
(*   app.py                      analyze_skin, health_check, preload        *)
(*   controller/controller.py    SkinController                             *)
(*                                                                         *)
(* Three specifications share the module:                                  *)
(*   SpecGate  the skin gate applied to one image                          *)
(*   SpecRank  get_predictions_dict and the two result formatters          *)
(*   Spec      concurrent requests, preloads and health checks against     *)
(*             the shared service object                                   *)
(***************************************************************************)
EXTENDS Integers, Sequences, FiniteSets, TLC

VARIABLES
    gateImage,      \* SpecGate: the BGR image handed to detect_skin_in_image
    gateCalled,     \* SpecGate: whether detect_skin_in_image has returned
    gateVerdict,    \* SpecGate: its return value (FALSE before the call)
    probabilities,  \* SpecRank: the vector handed to get_predictions_dict
    results,        \* SpecRank: what get_predictions_dict returned
    appResponse,    \* SpecRank: the success body app.analyze_skin builds from it
    ctlResult,      \* SpecRank: what SkinController.analyze_image_from_array returns
    model,          \* Spec: SkinConditionService._model, 0 is None, k > 0 the k-th loaded object
    loadStarts,     \* Spec: calls of tf.keras.models.load_model begun (history)
    loadCount,      \* Spec: calls of tf.keras.models.load_model that returned a model (history)
    pc,             \* Spec: per thread, the position in its handler
    kind,           \* Spec: per thread, "analyze", "preload", "health" or "none"
    req,            \* Spec: per thread, the request it received
    img,            \* Spec: per thread, the decoded image (rgb_image), or NoImage
    mdl,            \* Spec: per thread, the handle load_model returned to it, 0 before
    probs,          \* Spec: per thread, the vector predict_classes returned
    resp,           \* Spec: per thread, the response sent
    stages,         \* Spec: per thread, the pipeline stages passed, in order (history)
    ops,            \* Spec: per thread, the service operations run for it (history)
    raised          \* Spec: per thread, the exception that ended it (history)

gateVars == <<gateImage, gateCalled, gateVerdict>>
rankVars == <<probabilities, results, appResponse, ctlResult>>
pipeVars == <<model, loadStarts, loadCount, pc, kind, req, img, mdl, probs,
              resp, stages, ops, raised>>
others == <<gateVars, rankVars>>
vars == <<gateVars, rankVars, pipeVars>>

-----------------------------------------------------------------------------
(* Bounds *)

MaxH == 2          \* image heights 1..MaxH
MaxFg == 3         \* foreground pixels 0..MaxFg
NumThreads == 2    \* concurrent handlers in Spec

Widths == {1, 50, 100}

-----------------------------------------------------------------------------
(* Arithmetic helpers *)

Max2(a, b) == IF a >= b THEN a ELSE b
Min2(a, b) == IF a <= b THEN a ELSE b

\* cvRound(a / b) for a >= 0, b > 0: round to nearest, halves to even.
cvRound(a, b) ==
    LET q == a \div b
        r == a % b
    IN  IF 2 * r > b \/ (2 * r = b /\ q % 2 = 1) THEN q + 1 ELSE q

\* x >> 12 on a signed int (arithmetic shift: floor division).
Shr12(x) == x \div 4096

-----------------------------------------------------------------------------
(* Images.  A pixel is <<b, g, r>> (or <<r, g, b>> after COLOR_BGR2RGB).    *)
(* An image is h x w pixels of which the first n (row-major) have colour fg *)
(* and the rest colour bg.                                                 *)

Black   == <<0, 0, 0>>
White   == <<255, 255, 255>>
Tan     == <<105, 172, 224>>    \* hue 17
Pink    == <<160, 150, 220>>    \* hue 176
Green   == <<0, 255, 0>>        \* hue 60
Dark    == <<30, 40, 60>>       \* hue 10, value 60
Pale    == <<238, 240, 250>>    \* hue 5, saturation 12
Hue20   == <<0, 131, 200>>
Hue21   == <<0, 137, 200>>
Hue169  == <<75, 0, 200>>
Hue170  == <<65, 0, 200>>

Palette == {Black, White, Tan, Pink, Green, Dark, Pale, Hue20, Hue21, Hue169, Hue170}

Images == {i \in [h : 1..MaxH, w : Widths, bg : Palette, fg : Palette, n : 0..MaxFg] :
              i.n <= i.h * i.w}

TotalPixels(image) == image.h * image.w
PixelAt(image, i) == IF i <= image.n THEN image.fg ELSE image.bg

\* cv2.cvtColor(x, COLOR_BGR2RGB) and COLOR_RGB2BGR: swap channels 1 and 3.
SwapRB(image) ==
    [image EXCEPT !.bg = <<image.bg[3], image.bg[2], image.bg[1]>>,
                  !.fg = <<image.fg[3], image.fg[2], image.fg[1]>>]

\* cv2.cvtColor(bgr, COLOR_BGR2HSV) on one 8-bit pixel (hue range 0..179):
\* OpenCV's fixed-point RGB2HSV_b with hsv_shift = 12.
BGR2HSV(px) ==
    LET b == px[1]
        g == px[2]
        r == px[3]
        v == Max2(b, Max2(g, r))
        vmin == Min2(b, Min2(g, r))
        diff == v - vmin
        sdiv == IF v = 0 THEN 0 ELSE cvRound(255 * 4096, v)
        hdiv == IF diff = 0 THEN 0 ELSE cvRound(180 * 4096, 6 * diff)
        s == Shr12(diff * sdiv + 2048)
        h0 == IF v = r THEN g - b
              ELSE IF v = g THEN b - r + 2 * diff
              ELSE r - g + 4 * diff
        h1 == Shr12(h0 * hdiv + 2048)
        h == IF h1 < 0 THEN h1 + 180 ELSE h1
    IN  <<h, s, v>>

-----------------------------------------------------------------------------
(* detect_skin_in_image *)

lower_skin1 == <<0, 20, 70>>
upper_skin1 == <<20, 255, 255>>
lower_skin2 == <<170, 20, 70>>
upper_skin2 == <<180, 255, 255>>

\* cv2.inRange on one pixel: 255 when every channel lies within [lo, hi], else 0.
inRange(px, lo, hi) ==
    IF \A c \in 1..3 : lo[c] <= px[c] /\ px[c] <= hi[c] THEN 255 ELSE 0

\* cv2.bitwise_or of two mask values, each 0 or 255.
bitwise_or(a, b) == IF a = 255 \/ b = 255 THEN 255 ELSE 0

\* The mask of the image: one value per pixel index.
SkinMask(bgr_image) ==
    [i \in 1..TotalPixels(bgr_image) |->
        LET hsv == BGR2HSV(PixelAt(bgr_image, i))
        IN  bitwise_or(inRange(hsv, lower_skin1, upper_skin1),
                       inRange(hsv, lower_skin2, upper_skin2))]

countNonZero(mask) == Cardinality({i \in DOMAIN mask : mask[i] # 0})

\* skin_ratio > 0.01 with skin_ratio = skin_pixels / total_pixels in binary
\* floating point: the quotient is correctly rounded, so for these sizes it
\* exceeds the double 0.01 exactly when skin_pixels * 100 > total_pixels.
RatioAboveThreshold(skin_pixels, total_pixels) == skin_pixels * 100 > total_pixels

\* A gate with the comparison turned into >=.
detect_skin_geq(bgr_image) ==
    countNonZero(SkinMask(bgr_image)) * 100 >= TotalPixels(bgr_image)

detect_skin_in_image(bgr_image) ==
    LET skin_pixels == countNonZero(SkinMask(bgr_image))
        total_pixels == TotalPixels(bgr_image)
    IN  RatioAboveThreshold(skin_pixels, total_pixels)

-----------------------------------------------------------------------------
(* Text.  A Python str is a sequence of one-character strings.             *)

IsSpace(c) == c = " "

RECURSIVE lstrip(_)
lstrip(s) == IF s # <<>> /\ IsSpace(Head(s)) THEN lstrip(Tail(s)) ELSE s

RECURSIVE rstrip(_)
rstrip(s) ==
    IF s # <<>> /\ IsSpace(s[Len(s)]) THEN rstrip(SubSeq(s, 1, Len(s) - 1)) ELSE s

\* str.strip()
strip(s) == rstrip(lstrip(s))

UpperChars == <<"A","B","C","D","E","F","G","H","I","J","K","L","M",
                "N","O","P","Q","R","S","T","U","V","W","X","Y","Z">>
LowerChars == <<"a","b","c","d","e","f","g","h","i","j","k","l","m",
                "n","o","p","q","r","s","t","u","v","w","x","y","z">>

\* str.lower()
lower(s) ==
    [i \in DOMAIN s |->
        IF \E k \in DOMAIN UpperChars : UpperChars[k] = s[i]
        THEN LowerChars[CHOOSE k \in DOMAIN UpperChars : UpperChars[k] = s[i]]
        ELSE s[i]]

DigitChars == <<"0","1","2","3","4","5","6","7","8","9">>

RECURSIVE Digits(_)
Digits(n) == IF n < 10 THEN <<DigitChars[n + 1]>>
             ELSE Digits(n \div 10) \o <<DigitChars[(n % 10) + 1]>>

-----------------------------------------------------------------------------
(* Numbers.  A float is held in units of 10^-5: the probability 0.5 is      *)
(* 50000 and the percentage 50.0 is 5000000.                               *)

\* float(p) * 100
TimesHundred(p) == p * 100

\* round(v, 2): to the nearest multiple of 0.01 (1000 units), halves to even.
round2(v) == cvRound(v, 1000) * 1000

\* f"{prob:.2f}"
Fmt2f(v) ==
    LET c == cvRound(v, 1000)
    IN  Digits(c \div 100) \o <<".">> \o <<DigitChars[((c \div 10) % 10) + 1]>>
                           \o <<DigitChars[(c % 10) + 1]>>

-----------------------------------------------------------------------------
(* SkinConditionService.index_to_label and get_predictions_dict            *)

LabelTable == <<
    <<"d", "r", "y", " ">>,
    <<"a", "c", "n", "e">>,
    <<"p", "i", "g", "m", "e", "n", "t", "a", "t", "i", "o", "n">>,
    <<"w", "r", "i", "n", "k", "l", "e">>,
    <<"d", "a", "r", "k", " ", "c", "i", "r", "c", "l", "e", "s">>,
    <<"n", "o", "r", "m", "a", "l">> >>

\* index_to_label[i] for the Python index i in 0..5
index_to_label == [i \in 0..(Len(LabelTable) - 1) |-> LabelTable[i + 1]]

\* The Python list [(index_to_label[i], float(probabilities[i]) * 100) for i in range(len)].
\* The vector is a sequence whose k-th element is Python's probabilities[k - 1].
LabelledPercentages(p) ==
    [k \in 1..Len(p) |-> <<index_to_label[k - 1], TimesHundred(p[k])>>]

\* Where sorted(..., key=x[1], reverse=True) places x in an already sorted
\* prefix: after every element whose key is >= x's (the sort is stable, and
\* reverse=True keeps the original order of equal keys).
InsertDescending(s, x) ==
    LET k == Cardinality({i \in DOMAIN s : s[i][2] >= x[2]})
    IN  SubSeq(s, 1, k) \o <<x>> \o SubSeq(s, k + 1, Len(s))

\* A sort that puts equal keys in reverse order (sorted ascending, then reversed).
InsertTiesReversed(s, x) ==
    LET k == Cardinality({i \in DOMAIN s : s[i][2] > x[2]})
    IN  SubSeq(s, 1, k) \o <<x>> \o SubSeq(s, k + 1, Len(s))

\* A sort that forgets reverse=True.
InsertAscending(s, x) ==
    LET k == Cardinality({i \in DOMAIN s : s[i][2] <= x[2]})
    IN  SubSeq(s, 1, k) \o <<x>> \o SubSeq(s, k + 1, Len(s))

Insert(s, x) == InsertDescending(s, x)

RECURSIVE SortedFrom(_, _)
SortedFrom(acc, rest) ==
    IF rest = <<>> THEN acc ELSE SortedFrom(Insert(acc, Head(rest)), Tail(rest))

\* sorted(list, key=lambda x: x[1], reverse=True)
sorted_reverse(list) == SortedFrom(<<>>, list)

\* A Python dict: a sequence of <<key, value>> with distinct keys, in
\* insertion order.  d[k] = v replaces the value of an existing key in place.
DictSet(d, k, v) ==
    IF \E i \in DOMAIN d : d[i][1] = k
    THEN [i \in DOMAIN d |-> IF d[i][1] = k THEN <<k, v>> ELSE d[i]]
    ELSE Append(d, <<k, v>>)

RECURSIVE DictFrom(_, _)
DictFrom(d, pairs) ==
    IF pairs = <<>> THEN d
    ELSE DictFrom(DictSet(d, Head(pairs)[1], Head(pairs)[2]), Tail(pairs))

DictKeys(d) == {d[i][1] : i \in DOMAIN d}

\* get_predictions_dict raises for these vectors: sorted_preds[0] on an empty
\* list (IndexError), index_to_label[i] for i >= 6 (KeyError).
RankRaises(p) ==
    IF Len(p) = 0 THEN "IndexError"
    ELSE IF Len(p) > Len(LabelTable) THEN "KeyError"
    ELSE "none"

get_predictions_dict(p) ==
    LET sorted_preds == sorted_reverse(LabelledPercentages(p))
        predictions_list ==
            [i \in DOMAIN sorted_preds |->
                sorted_preds[i][1] \o <<":", " ">> \o Fmt2f(sorted_preds[i][2]) \o <<"%">>]
        top_prediction == sorted_preds[1]
        all_predictions == DictFrom(<<>>, sorted_preds)
    IN  [top_condition |-> top_prediction[1],
         confidence |-> top_prediction[2],
         all_conditions |-> all_predictions,
         condition_list |-> predictions_list,
         sorted_predictions |-> sorted_preds]

-----------------------------------------------------------------------------
(* app.get_recommendations and the two result formatters                   *)

\* The keys of the recommendations table.
RecommendationKeys == {
    <<"a", "c", "n", "e">>,
    <<"d", "r", "y">>,
    <<"p", "i", "g", "m", "e", "n", "t", "a", "t", "i", "o", "n">>,
    <<"w", "r", "i", "n", "k", "l", "e">>,
    <<"d", "a", "r", "k", " ", "c", "i", "r", "c", "l", "e", "s">>,
    <<"n", "o", "r", "m", "a", "l">> }

\* recommendations.get(condition.lower(), recommendations["normal"]); an
\* entry is named by its key.
get_recommendations(condition) ==
    IF lower(condition) \in RecommendationKeys THEN lower(condition) ELSE <<"n", "o", "r", "m", "a", "l">>

\* {k.strip(): round(v, 2) for k, v in d.items()}
StripRoundDict(d) ==
    DictFrom(<<>>, [i \in DOMAIN d |-> <<strip(d[i][1]), round2(d[i][2])>>])

\* The success body of app.analyze_skin.
AppSuccessBody(r) ==
    [success |-> TRUE,
     top_condition |-> strip(r.top_condition),
     confidence |-> round2(r.confidence),
     all_conditions |-> StripRoundDict(r.all_conditions),
     recommendations |-> get_recommendations(strip(r.top_condition))]

\* What SkinController.analyze_image_from_array returns.
ControllerResult(r) ==
    [success |-> TRUE,
     top_condition |-> strip(r.top_condition),
     confidence |-> round2(r.confidence),
     all_conditions |-> StripRoundDict(r.all_conditions),
     predictions_list |-> r.condition_list]

-----------------------------------------------------------------------------
(* Requests to POST /api/analyze                                           *)

Threads == 1..NumThreads

NoImage == [h |-> 0, w |-> 0, bg |-> Black, fg |-> Black, n |-> 0]

\* Two decodable pictures, as BGR: one with 2% skin pixels, one with exactly 1%.
SkinPicture == [h |-> 1, w |-> 50, bg |-> Green, fg |-> Tan, n |-> 1]
NoSkinPicture == [h |-> 1, w |-> 100, bg |-> White, fg |-> Tan, n |-> 1]

\* The bytes of a payload: none at all, bytes no codec reads, or an encoded picture.
Payloads == {[bytes |-> "empty", picture |-> NoImage],
             [bytes |-> "garbage", picture |-> NoImage],
             [bytes |-> "encoded", picture |-> SkinPicture],
             [bytes |-> "encoded", picture |-> NoSkinPicture]}

\* transport: "none" (no image field), "file" (multipart) or "json".
\* filename:  the multipart file's name.
\* isStr:     whether the JSON 'image' value is a string.
\* prefixed:  whether the string is a data URL, "<header>,<base64>".
\* padOk:     whether the base64 text has correct padding.
Requests ==
    {[transport |-> "none", filename |-> "", isStr |-> TRUE, prefixed |-> FALSE,
      padOk |-> TRUE, payload |-> [bytes |-> "empty", picture |-> NoImage]]}
    \cup {[transport |-> "file", filename |-> "", isStr |-> TRUE, prefixed |-> FALSE,
           padOk |-> TRUE, payload |-> [bytes |-> "empty", picture |-> NoImage]]}
    \cup {[transport |-> "file", filename |-> "a.png", isStr |-> TRUE, prefixed |-> FALSE,
           padOk |-> TRUE, payload |-> p] : p \in Payloads \ {[bytes |-> "encoded", picture |-> SkinPicture]}}
    \cup {[transport |-> "json", filename |-> "", isStr |-> FALSE, prefixed |-> FALSE,
           padOk |-> TRUE, payload |-> [bytes |-> "empty", picture |-> NoImage]]}
    \cup {[transport |-> "json", filename |-> "", isStr |-> TRUE, prefixed |-> FALSE,
           padOk |-> FALSE, payload |-> [bytes |-> "garbage", picture |-> NoImage]]}
    \cup {[transport |-> "json", filename |-> "", isStr |-> TRUE, prefixed |-> FALSE,
           padOk |-> TRUE, payload |-> p] : p \in {q \in Payloads : q.bytes # "encoded"}}
    \cup {[transport |-> "json", filename |-> "", isStr |-> TRUE, prefixed |-> TRUE,
           padOk |-> TRUE, payload |-> p] : p \in {q \in Payloads : q.bytes = "encoded"}}

NoRequest == [transport |-> "none", filename |-> "", isStr |-> TRUE, prefixed |-> FALSE,
              padOk |-> TRUE, payload |-> [bytes |-> "empty", picture |-> NoImage]]

\* The JSON string, as its comma-separated parts.
JsonParts(q) ==
    LET data == [padOk |-> q.padOk, payload |-> q.payload]
    IN  IF q.prefixed THEN <<[padOk |-> TRUE, payload |-> [bytes |-> "garbage", picture |-> NoImage]], data>>
        ELSE <<data>>

\* if ',' in image_data: image_data = image_data.split(',')[1]
StripDataUrl(parts) == IF Len(parts) > 1 THEN parts[2] ELSE parts[1]

\* Python's exception classes: binascii.Error derives from ValueError; the
\* others here derive from Exception only.
IsValueError(cls) == cls \in {"ValueError", "binascii.Error"}

\* base64.b64decode(text): the bytes, or binascii.Error on incorrect padding.
b64decode(text) ==
    IF text.padOk THEN [exc |-> "none", msg |-> "", payload |-> text.payload]
    ELSE [exc |-> "binascii.Error", msg |-> "Incorrect padding",
          payload |-> [bytes |-> "empty", picture |-> NoImage]]

\* cv2.imdecode(np.frombuffer(bytes), IMREAD_COLOR): cv2.error on an empty
\* buffer, None on bytes no codec reads, else the picture.
imdecode(payload) ==
    IF payload.bytes = "empty"
    THEN [out |-> "raise", cls |-> "cv2.error", msg |-> "(-215:Assertion failed) !buf.empty()",
          bgr |-> NoImage]
    ELSE IF payload.bytes = "garbage"
    THEN [out |-> "none", cls |-> "none", msg |-> "", bgr |-> NoImage]
    ELSE [out |-> "image", cls |-> "none", msg |-> "", bgr |-> payload.picture]

Return400(msg) == [out |-> "return", cls |-> "none", msg |-> msg, bgr |-> NoImage]
Raise(cls, msg) == [out |-> "raise", cls |-> cls, msg |-> msg, bgr |-> NoImage]

\* if bgr_image is None: return "Invalid image format", 400
CheckDecoded(d) == IF d.out = "none" THEN Return400("Invalid image format") ELSE d

\* The first part of analyze_skin: out is "return" (an early 400), "raise"
\* (an exception, left to the handlers) or "image" (bgr holds the picture).
GetImage(q) ==
    IF q.transport = "file"
    THEN IF q.filename = "" THEN Return400("No file selected")
         ELSE CheckDecoded(imdecode(q.payload))
    ELSE IF q.transport = "json"
    THEN IF ~q.isStr
         THEN Raise("TypeError", "argument of type 'int' is not iterable")
         ELSE LET dec == b64decode(StripDataUrl(JsonParts(q)))
              IN  IF dec.exc # "none" THEN Raise(dec.exc, dec.msg)
                  ELSE CheckDecoded(imdecode(dec.payload))
    ELSE Return400("No image provided")

GenericMessage == "An error occurred during analysis"

NoBody == <<>>
ErrorBody(msg) == [error |-> msg]

\* A handler that answers 500 with a flagged partial body.
ExceptResponseFlagged(cls, msg) ==
    IF IsValueError(cls) THEN [status |-> 400, body |-> [success |-> FALSE, error |-> msg]]
    ELSE [status |-> 500, body |-> ErrorBody(GenericMessage)]

\* except ValueError as e: 400 with str(e); except Exception: 500, generic.
ExceptResponse(cls, msg) ==
    IF IsValueError(cls) THEN [status |-> 400, body |-> ErrorBody(msg)]
    ELSE [status |-> 500, body |-> ErrorBody(GenericMessage)]

NoRaise == [cls |-> "none", msg |-> "", at |-> "none"]
NoResponse == [status |-> 0, body |-> NoBody]

\* The vectors the classifier may return: one with six entries, and one from
\* an artifact with seven outputs.
PipeVectors == {<<10000, 10000, 10000, 10000, 10000, 50000>>,
                <<10000, 10000, 10000, 10000, 10000, 10000, 40000>>}

-----------------------------------------------------------------------------
(* Spec: the handlers, one step per action                                 *)

InitPipe ==
    /\ model = 0
    /\ loadStarts = 0
    /\ loadCount = 0
    /\ pc = [r \in Threads |-> "idle"]
    /\ kind = [r \in Threads |-> "none"]
    /\ req = [r \in Threads |-> NoRequest]
    /\ img = [r \in Threads |-> NoImage]
    /\ mdl = [r \in Threads |-> 0]
    /\ probs = [r \in Threads |-> <<>>]
    /\ resp = [r \in Threads |-> NoResponse]
    /\ stages = [r \in Threads |-> <<>>]
    /\ ops = [r \in Threads |-> {}]
    /\ raised = [r \in Threads |-> NoRaise]

\* An exception reaches analyze_skin's handlers: the request ends.
Fail(r, cls, msg, at) ==
    /\ raised' = [raised EXCEPT ![r] = [cls |-> cls, msg |-> msg, at |-> at]]
    /\ resp' = [resp EXCEPT ![r] = ExceptResponse(cls, msg)]
    /\ stages' = [stages EXCEPT ![r] = Append(@, "Failed")]
    /\ pc' = [pc EXCEPT ![r] = "done"]

\* POST /api/analyze arrives.
Receive(r) ==
    /\ pc[r] = "idle"
    /\ \E q \in Requests : req' = [req EXCEPT ![r] = q]
    /\ kind' = [kind EXCEPT ![r] = "analyze"]
    /\ pc' = [pc EXCEPT ![r] = "received"]
    /\ stages' = [stages EXCEPT ![r] = <<"Received">>]
    /\ UNCHANGED <<others, model, loadStarts, loadCount, img, mdl, probs, resp, ops, raised>>

\* analyze_skin up to rgb_image = cv2.cvtColor(bgr_image, COLOR_BGR2RGB).
GetImageStep(r) ==
    /\ pc[r] = "received"
    /\ LET d == GetImage(req[r])
       IN  \/ /\ d.out = "return"
              /\ resp' = [resp EXCEPT ![r] = [status |-> 400, body |-> ErrorBody(d.msg)]]
              /\ stages' = [stages EXCEPT ![r] = Append(@, "Failed")]
              /\ pc' = [pc EXCEPT ![r] = "done"]
              /\ UNCHANGED <<img, raised>>
           \/ /\ d.out = "raise"
              /\ Fail(r, d.cls, d.msg, "decode")
              /\ UNCHANGED img
           \/ /\ d.out = "image"
              /\ img' = [img EXCEPT ![r] = SwapRB(d.bgr)]
              /\ pc' = [pc EXCEPT ![r] = "decoded"]
              /\ UNCHANGED <<resp, stages, raised>>
    /\ UNCHANGED <<others, model, loadStarts, loadCount, kind, req, mdl, probs, ops>>

\* A predict_classes that goes on after the gate said no.
GateCheckIgnored(r) ==
    /\ pc[r] = "decoded"
    /\ ops' = [ops EXCEPT ![r] = @ \cup {"gate"}]
    /\ stages' = [stages EXCEPT ![r] = Append(@, "GateChecked")]
    /\ pc' = [pc EXCEPT ![r] = "load_model"]
    /\ UNCHANGED <<raised, resp>>
    /\ UNCHANGED <<others, model, loadStarts, loadCount, kind, req, img, mdl, probs>>

\* predict_classes: RGB back to BGR, then the skin gate.
GateCheck(r) ==
    /\ pc[r] = "decoded"
    /\ ops' = [ops EXCEPT ![r] = @ \cup {"gate"}]
    /\ \/ /\ ~detect_skin_in_image(SwapRB(img[r]))
          /\ Fail(r, "ValueError", "No skin detected in the image", "gate")
       \/ /\ detect_skin_in_image(SwapRB(img[r]))
          /\ stages' = [stages EXCEPT ![r] = Append(@, "GateChecked")]
          /\ pc' = [pc EXCEPT ![r] = "load_model"]
          /\ UNCHANGED <<raised, resp>>
    /\ UNCHANGED <<others, model, loadStarts, loadCount, kind, req, img, mdl, probs>>

\* SkinController.preload_model (and app's __main__ block) calls load_model.
StartPreload(r) ==
    /\ pc[r] = "idle"
    /\ kind' = [kind EXCEPT ![r] = "preload"]
    /\ pc' = [pc EXCEPT ![r] = "load_model"]
    /\ UNCHANGED <<others, model, loadStarts, loadCount, req, img, mdl, probs, resp, stages,
                   ops, raised>>

\* load_model, line 60: if self._model is None
LoadCheck(r) ==
    /\ pc[r] = "load_model"
    /\ ops' = [ops EXCEPT ![r] = @ \cup {"load_model"}]
    /\ IF model = 0
       THEN /\ pc' = [pc EXCEPT ![r] = "loading"]
            /\ loadStarts' = loadStarts + 1
       ELSE /\ pc' = [pc EXCEPT ![r] = "load_return"]
            /\ UNCHANGED loadStarts
    /\ UNCHANGED <<others, model, loadCount, kind, req, img, mdl, probs, resp, stages, raised>>

\* load_model, line 62: the artifact is read and assigned to self._model.
LoadSucceed(r) ==
    /\ pc[r] = "loading"
    /\ loadCount' = loadCount + 1
    /\ model' = loadCount + 1
    /\ ops' = [ops EXCEPT ![r] = @ \cup {"artifact_loaded"}]
    /\ pc' = [pc EXCEPT ![r] = "load_return"]
    /\ UNCHANGED <<others, loadStarts, kind, req, img, mdl, probs, resp, stages, raised>>

\* load_model, lines 64-66: reading the artifact raised; ValueError goes up.
LoadFail(r) ==
    /\ pc[r] = "loading"
    /\ IF kind[r] = "preload"
       THEN /\ resp' = [resp EXCEPT ![r] = [status |-> 0, body |-> [returned |-> FALSE]]]
            /\ raised' = [raised EXCEPT ![r] =
                   [cls |-> "ValueError", msg |-> "Model loading failed: <detail>", at |-> "load"]]
            /\ pc' = [pc EXCEPT ![r] = "done"]
            /\ UNCHANGED stages
       ELSE Fail(r, "ValueError", "Model loading failed: <detail>", "load")
    /\ UNCHANGED <<others, model, loadStarts, loadCount, kind, req, img, mdl, probs, ops>>

\* load_model, line 67: return self._model
LoadReturn(r) ==
    /\ pc[r] = "load_return"
    /\ mdl' = [mdl EXCEPT ![r] = model]
    /\ IF kind[r] = "preload"
       THEN /\ resp' = [resp EXCEPT ![r] = [status |-> 0, body |-> [returned |-> TRUE]]]
            /\ pc' = [pc EXCEPT ![r] = "done"]
       ELSE /\ pc' = [pc EXCEPT ![r] = "preprocess"]
            /\ UNCHANGED resp
    /\ UNCHANGED <<others, model, loadStarts, loadCount, kind, req, img, probs, stages, ops, raised>>

\* preprocess_for_model
Preprocess(r) ==
    /\ pc[r] = "preprocess"
    /\ ops' = [ops EXCEPT ![r] = @ \cup {"preprocess"}]
    /\ stages' = [stages EXCEPT ![r] = Append(@, "Normalized")]
    /\ pc' = [pc EXCEPT ![r] = "predict"]
    /\ UNCHANGED <<others, model, loadStarts, loadCount, kind, req, img, mdl, probs, resp, raised>>

\* model.predict(preprocessed_img) returns a vector.
Predict(r) ==
    /\ pc[r] = "predict"
    /\ ops' = [ops EXCEPT ![r] = @ \cup {"predict"}]
    /\ \E v \in PipeVectors : probs' = [probs EXCEPT ![r] = v]
    /\ stages' = [stages EXCEPT ![r] = Append(@, "Classified")]
    /\ pc' = [pc EXCEPT ![r] = "rank"]
    /\ UNCHANGED <<others, model, loadStarts, loadCount, kind, req, img, mdl, resp, raised>>

\* model.predict raises: Keras raises ValueError for an input it rejects,
\* the runtime other exception classes.
PredictFail(r) ==
    /\ pc[r] = "predict"
    /\ ops' = [ops EXCEPT ![r] = @ \cup {"predict"}]
    /\ \E cls \in {"ValueError", "InternalError"} : Fail(r, cls, "<inference detail>", "predict")
    /\ UNCHANGED <<others, model, loadStarts, loadCount, kind, req, img, mdl, probs>>

\* get_predictions_dict(probabilities)
Rank(r) ==
    /\ pc[r] = "rank"
    /\ ops' = [ops EXCEPT ![r] = @ \cup {"rank"}]
    /\ IF RankRaises(probs[r]) # "none"
       THEN Fail(r, RankRaises(probs[r]), "<rank detail>", "rank")
       ELSE /\ stages' = [stages EXCEPT ![r] = Append(@, "Ranked")]
            /\ pc' = [pc EXCEPT ![r] = "format"]
            /\ UNCHANGED <<resp, raised>>
    /\ UNCHANGED <<others, model, loadStarts, loadCount, kind, req, img, mdl, probs>>

\* analyze_skin, lines 82-90: the success response.
Respond(r) ==
    /\ pc[r] = "format"
    /\ resp' = [resp EXCEPT ![r] =
           [status |-> 200, body |-> AppSuccessBody(get_predictions_dict(probs[r]))]]
    /\ stages' = [stages EXCEPT ![r] = Append(@, "Done")]
    /\ pc' = [pc EXCEPT ![r] = "done"]
    /\ UNCHANGED <<others, model, loadStarts, loadCount, kind, req, img, mdl, probs, ops, raised>>

\* GET /api/health
Health(r) ==
    /\ pc[r] = "idle"
    /\ kind' = [kind EXCEPT ![r] = "health"]
    /\ resp' = [resp EXCEPT ![r] =
           [status |-> 200, body |-> [status |-> "healthy", model_loaded |-> model # 0]]]
    /\ pc' = [pc EXCEPT ![r] = "done"]
    /\ UNCHANGED <<others, model, loadStarts, loadCount, req, img, mdl, probs, stages, ops, raised>>

NextPipe ==
    \E r \in Threads :
        \/ Receive(r)
        \/ GetImageStep(r)
        \/ GateCheck(r)
        \/ StartPreload(r)
        \/ LoadCheck(r)
        \/ LoadSucceed(r)
        \/ LoadFail(r)
        \/ LoadReturn(r)
        \/ Preprocess(r)
        \/ Predict(r)
        \/ PredictFail(r)
        \/ Rank(r)
        \/ Respond(r)
        \/ Health(r)

-----------------------------------------------------------------------------
(* SpecGate and SpecRank: the pure functions applied to drawn inputs        *)

ProbValues == {0, 10000, 33333, 50000}
ProbVectors == [1..Len(LabelTable) -> ProbValues]

NoResults == [top_condition |-> <<>>, confidence |-> 0, all_conditions |-> <<>>,
              condition_list |-> <<>>, sorted_predictions |-> <<>>]

GateIdle == gateImage = NoImage /\ gateCalled = FALSE /\ gateVerdict = FALSE
RankIdle == /\ probabilities = <<>>
            /\ results = NoResults
            /\ appResponse = NoBody
            /\ ctlResult = NoBody

InitGate ==
    /\ gateImage \in Images
    /\ gateCalled = FALSE
    /\ gateVerdict = FALSE
    /\ RankIdle
    /\ InitPipe

EvaluateGate ==
    /\ ~gateCalled
    /\ gateCalled' = TRUE
    /\ gateVerdict' = detect_skin_in_image(gateImage)
    /\ UNCHANGED <<gateImage, rankVars, pipeVars>>

NextGate == EvaluateGate

InitRank ==
    /\ probabilities \in ProbVectors
    /\ results = NoResults
    /\ appResponse = NoBody
    /\ ctlResult = NoBody
    /\ GateIdle
    /\ InitPipe

\* results = service.get_predictions_dict(probabilities)
RankStep ==
    /\ results = NoResults
    /\ results' = get_predictions_dict(probabilities)
    /\ UNCHANGED <<probabilities, appResponse, ctlResult, gateVars, pipeVars>>

\* app.analyze_skin formats the results.
FormatApp ==
    /\ results # NoResults
    /\ DOMAIN appResponse = {}
    /\ appResponse' = AppSuccessBody(results)
    /\ UNCHANGED <<probabilities, results, ctlResult, gateVars, pipeVars>>

\* SkinController.analyze_image_from_array formats the results.
FormatController ==
    /\ results # NoResults
    /\ DOMAIN ctlResult = {}
    /\ ctlResult' = ControllerResult(results)
    /\ UNCHANGED <<probabilities, results, appResponse, gateVars, pipeVars>>

NextRank == RankStep \/ FormatApp \/ FormatController

Init == InitPipe /\ GateIdle /\ RankIdle
Next == NextPipe

Spec == Init /\ [][Next]_vars
SpecGate == InitGate /\ [][NextGate]_vars
SpecRank == InitRank /\ [][NextRank]_vars

-----------------------------------------------------------------------------
(* Properties of the skin gate (SpecGate)                                  *)

\* The pixel test as the claim words it, on an HSV pixel.
ClaimSkinPixel(hsv) ==
    /\ (hsv[1] \in 0..20 \/ hsv[1] \in 170..180)
    /\ hsv[2] >= 20
    /\ hsv[3] >= 70

ClaimSkinCount(image) ==
    Cardinality({i \in 1..TotalPixels(image) : ClaimSkinPixel(BGR2HSV(PixelAt(image, i)))})

Uniform(image, colour) == \A i \in 1..TotalPixels(image) : PixelAt(image, i) = colour

-----------------------------------------------------------------------------
(* Properties of the ranker (SpecRank)                                     *)

ExampleVector == <<10000, 10000, 10000, 10000, 10000, 50000>>

\* The k-th (label, percentage) pair of the input, k = Python index + 1.
ClaimPair(k) == <<index_to_label[k - 1], probabilities[k] * 100>>

Occurrences(seq, x) == Cardinality({i \in DOMAIN seq : seq[i] = x})

\* The Python index of a label of the table.
LabelIndex(label) == CHOOSE i \in DOMAIN index_to_label : index_to_label[i] = label

Ranked == results # NoResults

\* C6: the ranked list is a permutation of the (label, probability * 100)
\* pairs in non-increasing order of percentage; top_condition and confidence
\* are its first pair, a maximum of the vector; for [0.1,0.1,0.1,0.1,0.1,0.5]
\* the top is the label at index 5 with confidence 50.00.
C6_RankedSortedPermutation ==
    Ranked =>
        LET sp == results.sorted_predictions
        IN  /\ Len(sp) = Len(probabilities)
            /\ \A k \in DOMAIN probabilities :
                   Occurrences(sp, ClaimPair(k)) =
                       Cardinality({j \in DOMAIN probabilities : ClaimPair(j) = ClaimPair(k)})
            /\ \A i, j \in DOMAIN sp : i < j => sp[i][2] >= sp[j][2]
            /\ results.top_condition = sp[1][1]
            /\ results.confidence = sp[1][2]
            /\ \A k \in DOMAIN probabilities : results.confidence >= probabilities[k] * 100
            /\ probabilities = ExampleVector =>
                   /\ results.top_condition = index_to_label[5]
                   /\ round2(results.confidence) = 5000000

\* The example vector has been ranked.
C6_Witness == Ranked /\ probabilities = ExampleVector

\* C7: entries with exactly equal percentages appear in the ranked list in
\* the order of their label indices, and among tied maxima the top_condition
\* is the one of lowest index: the result is fixed by the input alone.
C7_TiesInLabelIndexOrder ==
    Ranked =>
        LET sp == results.sorted_predictions
        IN  /\ \A i, j \in DOMAIN sp :
                   (i < j /\ sp[i][2] = sp[j][2]) => LabelIndex(sp[i][1]) < LabelIndex(sp[j][1])
            /\ \A k \in DOMAIN probabilities :
                   probabilities[k] * 100 = results.confidence =>
                       LabelIndex(results.top_condition) <= k - 1

\* A vector whose maximum is shared by indices 0 and 2 has been ranked.
C7_Witness ==
    /\ Ranked
    /\ probabilities[1] = 50000 /\ probabilities[3] = 50000 /\ probabilities[2] = 10000
    /\ results.top_condition = index_to_label[0]

Trimmed(s) == s = <<>> \/ (s[1] # " " /\ s[Len(s)] # " ")

\* The label of a "label: 12.34%" entry: the text before the first colon.
EntryLabel(e) ==
    LET c == CHOOSE i \in DOMAIN e : e[i] = ":" /\ \A j \in 1..(i - 1) : e[j] # ":"
    IN  SubSeq(e, 1, c - 1)

\* C9: in the result built from a probability vector every label is trimmed
\* wherever it appears (top label, mapping keys, ranked list), and the
\* mapping keeps one entry per label.
C9_LabelsTrimmedEverywhere ==
    DOMAIN ctlResult # {} =>
        /\ Trimmed(ctlResult.top_condition)
        /\ \A k \in DictKeys(ctlResult.all_conditions) : Trimmed(k)
        /\ Len(ctlResult.all_conditions) = Len(LabelTable)
        /\ \A i \in DOMAIN ctlResult.predictions_list :
               Trimmed(EntryLabel(ctlResult.predictions_list[i]))

-----------------------------------------------------------------------------
(* Properties of the handlers (Spec)                                       *)

Analyzed(r) == kind[r] = "analyze" /\ pc[r] = "done"

\* C1: concurrent first requests against an unloaded handle load the
\* artifact once.
C1_ArtifactLoadedOnce == loadCount <= 1

\* C2: a request that passed the gate and then met a load failure or an
\* inference failure is answered 500 with the generic message only.
C2_ServerFailuresAre500 ==
    \A r \in Threads :
        (Analyzed(r) /\ raised[r].at \in {"load", "predict"}) =>
            /\ resp[r].status = 500
            /\ resp[r].body.error = GenericMessage

\* A payload that cannot be decoded into an image.
Undecodable(q) ==
    \/ q.transport = "file" /\ q.filename # "" /\ q.payload.bytes # "encoded"
    \/ q.transport = "json" /\ (~q.isStr \/ ~q.padOk \/ q.payload.bytes # "encoded")

\* C3: a request whose image payload cannot be decoded is answered 400 with
\* an error, never 500.
C3_UndecodableIs400 ==
    \A r \in Threads :
        (Analyzed(r) /\ Undecodable(req[r])) =>
            /\ resp[r].status = 400
            /\ DOMAIN resp[r].body = {"error"}

\* The gate has judged thread r's decoded image and the image has no more
\* than 1% skin pixels.
GateRejected(r) ==
    /\ kind[r] = "analyze"
    /\ img[r] # NoImage
    /\ pc[r] # "decoded"
    /\ 100 * ClaimSkinCount(SwapRB(img[r])) <= TotalPixels(img[r])

\* C4: a request whose image the gate rejects ends at once with 400 and
\* {error: "No skin detected in the image"}; the classifier is neither loaded
\* nor invoked for it, and the normalizer and ranker do not run.
C4_GateRejectEndsRequest ==
    \A r \in Threads :
        GateRejected(r) =>
            /\ pc[r] = "done"
            /\ resp[r].status = 400
            /\ DOMAIN resp[r].body = {"error"}
            /\ resp[r].body.error = "No skin detected in the image"
            /\ ops[r] = {"gate"}
            /\ mdl[r] = 0
            /\ \A i \in DOMAIN stages[r] :
                   stages[r][i] \notin {"Normalized", "Classified", "Ranked", "Done"}

\* A request was rejected by the gate while the handle was already loaded.
C4_Witness ==
    \E r \in Threads : GateRejected(r) /\ pc[r] = "done" /\ model # 0

StageOrder == <<"Received", "GateChecked", "Normalized", "Classified", "Ranked", "Done">>

IsPrefix(s, t) == Len(s) <= Len(t) /\ \A i \in DOMAIN s : s[i] = t[i]

SuccessKeys == {"success", "top_condition", "confidence", "all_conditions", "recommendations"}

\* C5: a request passes Received, GateChecked, Normalized, Classified,
\* Ranked, Done in that order, each at most once, or goes to Failed; its
\* response is a complete success, produced after every stage, or an error
\* object alone.
C5_StagesInOrderAndNoPartialResult ==
    \A r \in Threads :
        kind[r] = "analyze" =>
            /\ \/ IsPrefix(stages[r], StageOrder)
               \/ /\ stages[r][Len(stages[r])] = "Failed"
                  /\ Len(stages[r]) >= 2
                  /\ IsPrefix(SubSeq(stages[r], 1, Len(stages[r]) - 1), StageOrder)
                  /\ stages[r][Len(stages[r]) - 1] # "Done"
            /\ pc[r] = "done" =>
                   \/ /\ stages[r] = StageOrder
                      /\ resp[r].status = 200
                      /\ DOMAIN resp[r].body = SuccessKeys
                      /\ resp[r].body.success = TRUE
                      /\ Len(resp[r].body.all_conditions) = Len(probs[r])
                      /\ resp[r].body.top_condition # <<>>
                   \/ /\ stages[r][Len(stages[r])] = "Failed"
                      /\ resp[r].status \in {400, 500}
                      /\ DOMAIN resp[r].body = {"error"}
            /\ pc[r] # "done" => DOMAIN resp[r].body = {}

\* A request has passed every stage and been answered.
C5_Witness ==
    \E r \in Threads : Analyzed(r) /\ stages[r] = StageOrder /\ resp[r].status = 200

\* C10: once a load has begun no other load begins, and a loaded handle is
\* never replaced.
C10_HandleLoadedAtMostOnce ==
    [][/\ loadStarts > 0 => loadStarts' = loadStarts
       /\ model # 0 => model' = model]_vars

=============================================================================
